---- MODULE Spec2Model ----
(***************************************************************************)
(* A model of funk, a small functional-programming helper library for      *)
(* JavaScript: variadic, fold, reverse, unary, binary, ternary, compose.   *)
(*                                                                         *)
(* JavaScript values are records [tag, num, items] of one shape.  A        *)
(* function value carries in items the variables its closure captured.     *)
(* Calling a function yields its return value and the log of every         *)
(* function invocation the call made, in call order.                       *)
(***************************************************************************)
EXTENDS Integers, Sequences, FiniteSets, TLC

VARIABLES op, root, callee, this, history, ret, calls, list

vars == <<op, root, callee, this, history, ret, calls, list>>

\* ------------------------------------------------------------------ bounds
MaxVal   == 3    \* numbers 1..MaxVal are passed as arguments and elements
MaxArgs  == 3    \* longest argument list of a call
MaxArity == 3    \* largest declared arity of a caller-supplied function
MaxDepth == 2    \* how many times variadic is applied to a function
MaxLen   == 3    \* longest list handed to fold and reverse
NumObjs  == 1    \* receiver objects besides the global object
NumFns   == 3    \* distinct unary functions handed to compose
MaxFns   == 3    \* most functions handed to one compose call
MaxNextArgs == 2 \* longest argument list handed to a returned function

\* ------------------------------------------------------- JavaScript values
Num(n) == [tag |-> "number", num |-> n, items |-> <<>>]

Undefined == [tag |-> "undefined", num |-> 0, items |-> <<>>]

NaN == [tag |-> "NaN", num |-> 0, items |-> <<>>]

TypeError == [tag |-> "TypeError", num |-> 0, items |-> <<>>]

Array(s) == [tag |-> "array", num |-> 0, items |-> s]

Obj(id) == [tag |-> "object", num |-> id, items |-> <<>>]

\* `this` of a plain call f(...) in non-strict code: the global object.
Global == Obj(0)

\* The value a caller-supplied function of unknown body returns: a term
\* naming the function and the values of its declared parameters.
App(id, params) == [tag |-> "app", num |-> id, items |-> params]

\* The i-th (0-based) argument of a call, undefined when not supplied.
Arg(args, i) == IF i + 1 <= Len(args) THEN args[i + 1] ELSE Undefined

Min(a, b) == IF a < b THEN a ELSE b

Max(a, b) == IF a > b THEN a ELSE b

\* Array.prototype.slice(begin, end): negative indices count from the end.
Slice(s, begin, end) ==
    LET len  == Len(s)
        from == IF begin < 0 THEN Max(len + begin, 0) ELSE Min(begin, len)
        to   == IF end < 0 THEN Max(len + end, 0) ELSE Min(end, len)
    IN  [i \in 1..Max(to - from, 0) |-> s[from + i]]

\* Array.prototype.slice(begin): up to the end of the array.
SliceFrom(s, begin) == Slice(s, begin, Len(s))

\* x + y and x * y on numbers; undefined or NaN operands give NaN.
JSAdd(x, y) ==
    IF x.tag = "number" /\ y.tag = "number" THEN Num(x.num + y.num) ELSE NaN

JSMul(x, y) ==
    IF x.tag = "number" /\ y.tag = "number" THEN Num(x.num * y.num) ELSE NaN

\* --------------------------------------------------------- function values
\* Caller-supplied function number id with n declared parameters.
UserFn(id, n) == [tag |-> "user", num |-> id, items |-> <<Num(n)>>]

\* function(x, y) { return x + y; }
AddFn == [tag |-> "add", num |-> 0, items |-> <<>>]

\* function(x, y, z) { return x * y * z; }
MultFn == [tag |-> "mult", num |-> 0, items |-> <<>>]

\* function(last, next) { return last * next; }
TimesFn == [tag |-> "times", num |-> 0, items |-> <<>>]

\* The wrapper variadic(fn) returns; it captures fn.
Variadic(fn) == [tag |-> "variadic", num |-> 0, items |-> <<fn>>]

\* The wrapper unary(fn) returns.
Unary(fn) == [tag |-> "unary", num |-> 0, items |-> <<fn>>]

\* The wrapper binary(fn) returns.
Binary(fn) == [tag |-> "binary", num |-> 0, items |-> <<fn>>]

\* The wrapper ternary(fn) returns.
Ternary(fn) == [tag |-> "ternary", num |-> 0, items |-> <<fn>>]

\* function(x) { return fn(x, y); } created inside binary's wrapper: it
\* captures fn and the wrapper's x and y, and declares its own x.
BinaryPartial(fn, x, y) ==
    [tag |-> "binary.partial", num |-> 0, items |-> <<fn, x, y>>]

\* function(y, z) { return fn(x, y, z); } created inside ternary's wrapper.
TernaryRest2(fn, x) ==
    [tag |-> "ternary.rest2", num |-> 0, items |-> <<fn, x>>]

\* function(z) { return fn(x, y, z); } created inside ternary's wrapper.
TernaryRest1(fn, x, y) ==
    [tag |-> "ternary.rest1", num |-> 0, items |-> <<fn, x, y>>]

\* function(fns) { return function(value) {...}; } handed to variadic.
ComposeFn == [tag |-> "compose.fn", num |-> 0, items |-> <<>>]

\* function(value) {...} returned by ComposeFn; it captures fns.
Composed(fns) == [tag |-> "composed", num |-> 0, items |-> <<fns>>]

\* var compose = variadic(function(fns) {...})
Compose == Variadic(ComposeFn)

\* function fold(list, fn, initial)
FoldFn == [tag |-> "fold", num |-> 0, items |-> <<>>]

\* function reverse(list)
ReverseFn == [tag |-> "reverse", num |-> 0, items |-> <<>>]

\* function(result, item) { result.unshift(item); return result; }
UnshiftFn == [tag |-> "reverse.fn", num |-> 0, items |-> <<>>]

FunctionTags ==
    {"user", "add", "mult", "times", "variadic", "unary", "binary",
     "ternary", "binary.partial", "ternary.rest2", "ternary.rest1",
     "compose.fn", "composed", "fold", "reverse", "reverse.fn"}

IsFunction(v) == v.tag \in FunctionTags

\* fn.length: the number of parameters the function declares.
FnLength(fn) ==
    CASE fn.tag = "user"           -> fn.items[1].num
      [] fn.tag = "variadic"       -> 0
      [] fn.tag = "composed"       -> 1
      [] fn.tag = "compose.fn"     -> 1
      [] fn.tag = "unary"          -> 1
      [] fn.tag = "binary.partial" -> 1
      [] fn.tag = "ternary.rest1"  -> 1
      [] fn.tag = "reverse"        -> 1
      [] fn.tag = "add"            -> 2
      [] fn.tag = "times"          -> 2
      [] fn.tag = "binary"         -> 2
      [] fn.tag = "ternary.rest2"  -> 2
      [] fn.tag = "reverse.fn"     -> 2
      [] fn.tag = "mult"           -> 3
      [] fn.tag = "ternary"        -> 3
      [] fn.tag = "fold"           -> 3

\* ------------------------------------------------------------ the library
\* Call(fn, receiver, args) is fn.apply(receiver, args): a record of the
\* value returned and of the invocations made, its own first.
RECURSIVE Call(_, _, _)

Returns(v) == [ret |-> v, calls |-> <<>>]

\* required(list) without the loop that pushes undefined
RequiredNoPadding(arity, lst) == Slice(lst, 0, arity - 1)

\* required(list) inside variadic
Required(arity, lst) ==
    LET zone      == arity - 1
        disparity == zone - Len(lst)
        out       == Slice(lst, 0, zone)
    IN  out \o [i \in 1..Max(disparity, 0) |-> Undefined]

\* rest(list) slicing from arity instead of arity - 1
RestFromArity(arity, lst) == SliceFrom(lst, arity)

\* rest(list) inside variadic
Rest(arity, lst) == SliceFrom(lst, arity - 1)

\* The wrapper calling fn(...) plainly instead of fn.apply(this, ...)
VariadicWrapperPlainCall(fn, receiver, args) ==
    LET arity == FnLength(fn)
    IN  IF arity = 1
        THEN Call(fn, Global, <<Array(args)>>)
        ELSE LET applyRest == <<Array(Rest(arity, args))>>
                 applyArgs == Required(arity, args) \o applyRest
             IN  Call(fn, Global, applyArgs)

\* The wrapper returned by variadic(fn), called on receiver with args.
VariadicWrapper(fn, receiver, args) ==
    LET arity == FnLength(fn)
    IN  IF arity = 1
        THEN Call(fn, receiver, <<Array(args)>>)
        ELSE LET applyRest == <<Array(Rest(arity, args))>>
                 applyArgs == Required(arity, args) \o applyRest
             IN  Call(fn, receiver, applyArgs)

\* The wrapper returned by unary(fn).
UnaryWrapper(fn, args) == Call(fn, Global, <<Arg(args, 0)>>)

\* function(x) { return fn(x, y); }: x is the parameter of this function,
\* y the variable of the enclosing binary wrapper.
BinaryPartialBody(fn, x, y, args) == Call(fn, Global, <<Arg(args, 0), y>>)

\* The wrapper returned by binary(fn).
BinaryWrapper(fn, args) ==
    LET x == Arg(args, 0)
        y == Arg(args, 1)
    IN  IF y = Undefined
        THEN Returns(Unary(BinaryPartial(fn, x, y)))
        ELSE Call(fn, Global, <<x, y>>)

\* function(y, z) { return fn(x, y, z); }
TernaryRest2Body(fn, x, args) ==
    Call(fn, Global, <<x, Arg(args, 0), Arg(args, 1)>>)

\* function(z) { return fn(x, z, y); }
TernaryRest1BodySwapped(fn, x, y, args) ==
    Call(fn, Global, <<x, Arg(args, 0), y>>)

\* function(z) { return fn(x, y, z); }
TernaryRest1Body(fn, x, y, args) == Call(fn, Global, <<x, y, Arg(args, 0)>>)

\* The wrapper returned by ternary(fn).
TernaryWrapper(fn, args) ==
    LET x == Arg(args, 0)
        y == Arg(args, 1)
        z == Arg(args, 2)
    IN  IF y = Undefined
        THEN Returns(Binary(TernaryRest2(fn, x)))
        ELSE IF z = Undefined
             THEN Returns(Unary(TernaryRest1(fn, x, y)))
             ELSE Call(fn, Global, <<x, y, z>>)

\* for (var i = fns.length-1; i >= 0; i--) value = fns[i](value);
\* i is the 0-based index about to be applied.
RECURSIVE ComposeLoop(_, _, _)
ComposeLoop(fns, i, value) ==
    IF i >= 0
    THEN LET step == Call(fns[i + 1], Global, <<value>>)
             tail == ComposeLoop(fns, i - 1, step.ret)
         IN  [ret |-> tail.ret, calls |-> step.calls \o tail.calls]
    ELSE Returns(value)

\* for (var i = 0; i < fns.length; i++) value = fns[i](value);
RECURSIVE ComposeLoopUp(_, _, _)
ComposeLoopUp(fns, i, value) ==
    IF i < Len(fns)
    THEN LET step == Call(fns[i + 1], Global, <<value>>)
             tail == ComposeLoopUp(fns, i + 1, step.ret)
         IN  [ret |-> tail.ret, calls |-> step.calls \o tail.calls]
    ELSE Returns(value)

\* function(value) {...} looping from the first function to the last
ComposedBodyLeftToRight(fns, args) ==
    ComposeLoopUp(fns.items, 0, Arg(args, 0))

\* function(value) {...} returned by compose
ComposedBody(fns, args) == ComposeLoop(fns.items, Len(fns.items) - 1, Arg(args, 0))

\* function(fns) { return function(value) {...}; }
ComposeFnBody(args) == Returns(Composed(Arg(args, 0)))

\* Array.prototype.reduce(fn, initialValue).  present tells whether an
\* initialValue argument was passed; k is the 0-based index reached.
RECURSIVE ReduceLoop(_, _, _, _)
ReduceLoop(lst, fn, k, acc) ==
    IF k < Len(lst)
    THEN LET step == Call(fn, Global, <<acc, lst[k + 1], Num(k), Array(lst)>>)
             tail == ReduceLoop(lst, fn, k + 1, step.ret)
         IN  [ret |-> tail.ret, calls |-> step.calls \o tail.calls]
    ELSE Returns(acc)

Reduce(lst, fn, present, initialValue) ==
    IF present
    THEN ReduceLoop(lst, fn, 0, initialValue)
    ELSE IF Len(lst) = 0
         THEN Returns(TypeError)
         ELSE ReduceLoop(lst, fn, 1, lst[1])

\* function fold(list, fn, initial): reduce is always handed initial.
FoldBody(args) ==
    LET lst     == Arg(args, 0)
        fn      == Arg(args, 1)
        initial == Arg(args, 2)
    IN  Reduce(lst.items, fn, TRUE, initial)

\* function(result, item) { result.push(item); return result; }
PushFnBody(args) ==
    LET result == Arg(args, 0)
        item   == Arg(args, 1)
    IN  Returns(Array(result.items \o <<item>>))

\* function(result, item) { result.unshift(item); return result; }
UnshiftFnBody(args) ==
    LET result == Arg(args, 0)
        item   == Arg(args, 1)
    IN  Returns(Array(<<item>> \o result.items))

\* function reverse(list)
ReverseBody(args) ==
    LET lst == Arg(args, 0)
    IN  Call(FoldFn, Global, <<lst, UnshiftFn, Array(<<>>)>>)

\* A caller-supplied function of unknown body.
UserFnBody(fn, args) ==
    Returns(App(fn.num, [i \in 1..FnLength(fn) |-> Arg(args, i - 1)]))

AddFnBody(args) == Returns(JSAdd(Arg(args, 0), Arg(args, 1)))

MultFnBody(args) ==
    Returns(JSMul(JSMul(Arg(args, 0), Arg(args, 1)), Arg(args, 2)))

TimesFnBody(args) == Returns(JSMul(Arg(args, 0), Arg(args, 1)))

Body(fn, receiver, args) ==
    CASE fn.tag = "user"           -> UserFnBody(fn, args)
      [] fn.tag = "add"            -> AddFnBody(args)
      [] fn.tag = "mult"           -> MultFnBody(args)
      [] fn.tag = "times"          -> TimesFnBody(args)
      [] fn.tag = "variadic"       -> VariadicWrapper(fn.items[1], receiver, args)
      [] fn.tag = "unary"          -> UnaryWrapper(fn.items[1], args)
      [] fn.tag = "binary"         -> BinaryWrapper(fn.items[1], args)
      [] fn.tag = "ternary"        -> TernaryWrapper(fn.items[1], args)
      [] fn.tag = "binary.partial" ->
            BinaryPartialBody(fn.items[1], fn.items[2], fn.items[3], args)
      [] fn.tag = "ternary.rest2"  ->
            TernaryRest2Body(fn.items[1], fn.items[2], args)
      [] fn.tag = "ternary.rest1"  ->
            TernaryRest1Body(fn.items[1], fn.items[2], fn.items[3], args)
      [] fn.tag = "compose.fn"     -> ComposeFnBody(args)
      [] fn.tag = "composed"       -> ComposedBody(fn.items[1], args)
      [] fn.tag = "fold"           -> FoldBody(args)
      [] fn.tag = "reverse"        -> ReverseBody(args)
      [] fn.tag = "reverse.fn"     -> UnshiftFnBody(args)

Call(fn, receiver, args) ==
    LET r == Body(fn, receiver, args)
    IN  [ret   |-> r.ret,
         calls |-> <<[fn |-> fn, this |-> receiver, args |-> args,
                      ret |-> r.ret]>> \o r.calls]

\* ------------------------------------------------------------------ inputs
Seqs(S, n) == UNION {[1..m -> S] : m \in 0..n}

Numbers == {Num(n) : n \in 1..MaxVal}

ArgValues == Numbers \cup {Undefined}

Receivers == {Obj(id) : id \in 0..NumObjs}

\* variadic applied d times to fn
RECURSIVE VariadicTimes(_, _)
VariadicTimes(fn, d) == IF d = 0 THEN fn ELSE Variadic(VariadicTimes(fn, d - 1))

\* ----------------------------------------------------------------- actions
\* One behaviour is the evaluation of one expression: a call of a library
\* function, followed by calls of the functions that call returned.
\* op names the library function, root the function called first, callee
\* the function called last, history the argument lists passed so far,
\* ret and calls the outcome of the last call, list the contents of the
\* caller's array after it.
Invoke(name, fn, receiver, args, lst) ==
    LET r == Call(fn, receiver, args)
    IN  /\ op' = name
        /\ root' = fn
        /\ callee' = fn
        /\ this' = receiver
        /\ history' = <<args>>
        /\ ret' = r.ret
        /\ calls' = r.calls
        /\ list' = lst

Init ==
    /\ op = "none"
    /\ root = Undefined
    /\ callee = Undefined
    /\ this = Global
    /\ history = <<>>
    /\ ret = Undefined
    /\ calls = <<>>
    /\ list = <<>>

\* variadic(fn) ... (args), on any receiver
CallVariadic ==
    /\ op = "none"
    /\ \E n \in 1..MaxArity, d \in 1..MaxDepth, r \in Receivers,
          args \in Seqs(ArgValues, MaxArgs) :
           Invoke("variadic", VariadicTimes(UserFn(1, n), d), r, args, <<>>)

\* fold(list, fn) and fold(list, fn, initial)
CallFold ==
    /\ op = "none"
    /\ \E lst \in Seqs(Numbers, MaxLen), fn \in {TimesFn, UserFn(1, 2)},
          initial \in Seqs(ArgValues, 1) :
           Invoke("fold", FoldFn, Global, <<Array(lst), fn>> \o initial, lst)

\* reverse(list)
CallReverse ==
    /\ op = "none"
    /\ \E lst \in Seqs(Numbers, MaxLen) :
           Invoke("reverse", ReverseFn, Global, <<Array(lst)>>, lst)

\* binary(fn)(args)
CallBinary ==
    /\ op = "none"
    /\ \E fn \in {AddFn, UserFn(1, 2)}, args \in Seqs(ArgValues, MaxArgs) :
           Invoke("binary", Binary(fn), Global, args, <<>>)

\* ternary(fn)(args)
CallTernary ==
    /\ op = "none"
    /\ \E fn \in {MultFn, UserFn(1, 3)}, args \in Seqs(ArgValues, MaxArgs) :
           Invoke("ternary", Ternary(fn), Global, args, <<>>)

\* compose(fns...)
CallCompose ==
    /\ op = "none"
    /\ \E fns \in Seqs({UserFn(id, 1) : id \in 1..NumFns}, MaxFns) :
           Invoke("compose", Compose, Global, fns, <<>>)

\* The function the previous call returned is called in turn.
CallReturned ==
    /\ IsFunction(ret)
    /\ \E args \in Seqs(ArgValues, MaxNextArgs) :
        LET r == Call(ret, Global, args)
        IN  /\ callee' = ret
            /\ this' = Global
            /\ history' = Append(history, args)
            /\ ret' = r.ret
            /\ calls' = r.calls
    /\ UNCHANGED <<op, root, list>>

Next ==
    \/ CallVariadic
    \/ CallFold
    \/ CallReverse
    \/ CallBinary
    \/ CallTernary
    \/ CallCompose
    \/ CallReturned

Spec == Init /\ [][Next]_vars

\* ------------------------------------------------------------- properties
\* The invocations of function fn in the log of the last call.
InvocationsOf(fn) == SelectSeq(calls, LAMBDA c : c.fn = fn)

\* variadic(fn) was called, fn a caller-supplied function.
WrappedOnce == op = "variadic" /\ root.items[1].tag = "user"

\* variadic(variadic(fn)) was called.
WrappedTwice == op = "variadic" /\ root.items[1].tag = "variadic"

\* C1: variadic(fn)(a_0, ..., a_{k-1}) invokes fn, of declared arity N >= 1,
\* exactly once, with exactly N arguments: argument i < N-1 is a_i when
\* i < k and undefined otherwise, and the last argument is the list of
\* a_{N-1}, ..., a_{k-1} (empty when k <= N-1, all arguments when N = 1).
C1_VariadicPartition ==
    WrappedOnce =>
        LET fn  == root.items[1]
            N   == fn.items[1].num
            a   == history[1]
            k   == Len(a)
            inv == InvocationsOf(fn)
        IN  /\ Len(inv) = 1
            /\ Len(inv[1].args) = N
            /\ \A i \in 0..(N - 2) :
                  inv[1].args[i + 1] = IF i < k THEN a[i + 1] ELSE Undefined
            /\ inv[1].args[N] =
                  Array([j \in 1..Max(k - (N - 1), 0) |-> a[N - 1 + j]])

\* fn of arity 3 called through its wrapper with one argument.
C1_Witness ==
    /\ WrappedOnce
    /\ root.items[1].items[1].num = 3
    /\ history[1] = <<Num(1)>>
    /\ calls[2].args = <<Num(1), Undefined, Array(<<>>)>>

\* C6 as stated: variadic(variadic(fn))(args...) hands the inner wrapper the
\* whole of args as one collected list.
C6_InnerGetsWholeList ==
    WrappedTwice =>
        /\ calls[2].fn = root.items[1]
        /\ calls[2].args = <<Array(history[1])>>

\* C6: the wrapper variadic returns declares no parameter, so
\* variadic(variadic(fn))(a_0, ..., a_{k-1}) hands the inner wrapper
\* a_0, ..., a_{k-2} followed by the one-element list [a_{k-1}] (the single
\* list [] when k = 0); that is the whole of args as one list only when
\* k <= 1.
C6_InnerGetsLastAsList ==
    WrappedTwice =>
        LET a == history[1]
            k == Len(a)
        IN  /\ calls[2].fn = root.items[1]
            /\ calls[2].args =
                  IF k = 0 THEN <<Array(<<>>)>>
                  ELSE [i \in 1..(k - 1) |-> a[i]] \o <<Array(<<a[k]>>)>>
            /\ k <= 1 => calls[2].args = <<Array(a)>>

\* A twice-wrapped function called with two arguments.
C6_Witness ==
    /\ WrappedTwice
    /\ history[1] = <<Num(1), Num(2)>>
    /\ calls[2].args = <<Num(1), Array(<<Num(2)>>)>>

\* C7: variadic(fn) called on receiver r invokes fn on the same receiver r,
\* whatever the arity of fn, and returns what fn returned.
C7_ReceiverPassedThrough ==
    WrappedOnce =>
        LET inv == InvocationsOf(root.items[1])
        IN  /\ Len(inv) >= 1
            /\ \A j \in 1..Len(inv) : inv[j].this = this
            /\ ret = inv[Len(inv)].ret

\* The wrapper of an arity-2 function called on an object.
C7_Witness ==
    /\ WrappedOnce
    /\ this = Obj(1)
    /\ root.items[1].items[1].num = 2
    /\ calls[2].this = Obj(1)
    /\ history[1] = <<Num(1), Num(2)>>

\* The list handed to fold or reverse, and the callback handed to fold.
InputList == history[1][1].items

Callback == history[1][2]

\* C4 as stated: fold(list, fn) without initial on a non-empty list seeds
\* the accumulator with the first element and applies fn(accumulator,
\* element) left to right to the remaining elements only; with the product
\* callback fold([1, 2, 3], fn) is 6.
C4_FoldSeedsWithFirst ==
    (op = "fold" /\ Len(history[1]) = 2 /\ Len(InputList) >= 1) =>
        LET lst == InputList
            cb  == InvocationsOf(Callback)
        IN  /\ Len(cb) = Len(lst) - 1
            /\ \A j \in 1..Len(cb) :
                  /\ cb[j].args[1] = IF j = 1 THEN lst[1] ELSE cb[j - 1].ret
                  /\ cb[j].args[2] = lst[j + 1]
            /\ ret = IF Len(cb) = 0 THEN lst[1] ELSE cb[Len(cb)].ret
            /\ (lst = <<Num(1), Num(2), Num(3)>> /\ Callback = TimesFn)
                  => ret = Num(6)

\* C8: reverse(list) returns a sequence of the length n of list whose i-th
\* element is list[n-1-i], built by a fold over list that starts from a
\* fresh empty accumulator and prepends each element; list is unchanged.
C8_ReverseReverses ==
    op = "reverse" =>
        LET lst == InputList
            n   == Len(lst)
        IN  /\ ret.tag = "array"
            /\ Len(ret.items) = n
            /\ \A i \in 0..(n - 1) : ret.items[i + 1] = lst[n - i]
            /\ calls[2].fn = FoldFn
            /\ calls[2].args[1] = Array(lst)
            /\ calls[2].args[3] = Array(<<>>)
            /\ Len(InvocationsOf(calls[2].args[2])) = n
            /\ list = lst

\* reverse([1, 2, 3]) returned [3, 2, 1].
C8_Witness ==
    /\ op = "reverse"
    /\ InputList = <<Num(1), Num(2), Num(3)>>
    /\ ret = Array(<<Num(3), Num(2), Num(1)>>)
    /\ list = <<Num(1), Num(2), Num(3)>>

\* The function handed to binary or ternary, and what it returns for args.
Curried == root.items[1]

Direct(args) == Call(Curried, Global, args).ret

\* C2 as stated: for x and y that are not undefined, binary(fn)(x) returns
\* a function, that function applied to y returns fn(x, y), and so does
\* binary(fn)(x, y).
C2_BinaryCurries ==
    op = "binary" =>
        \A x \in Numbers, y \in Numbers :
            /\ history = <<<<x>>>> => IsFunction(ret)
            /\ history = <<<<x>>, <<y>>>> => ret = Direct(<<x, y>>)
            /\ history = <<<<x, y>>>> => ret = Direct(<<x, y>>)

\* C3 as stated: for x, y, z that are not undefined,
\* ternary(fn)(x)(y)(z) returns what ternary(fn)(x, y, z) returns, fn(x, y, z).
C3_TernaryCurries ==
    op = "ternary" =>
        \A x \in Numbers, y \in Numbers, z \in Numbers :
            /\ history = <<<<x>>, <<y>>, <<z>>>> => ret = Direct(<<x, y, z>>)
            /\ history = <<<<x, y, z>>>> => ret = Direct(<<x, y, z>>)

\* C9: for x, y, z that are not undefined, ternary(fn)(x, y) returns a
\* unary function g with g(z) = fn(x, y, z), ternary(fn)(x) returns a
\* binary function h with h(y, z) = fn(x, y, z), and ternary(fn)(x, y, z)
\* calls fn at once.
C9_TernaryPartial ==
    op = "ternary" =>
        \A x \in Numbers, y \in Numbers, z \in Numbers :
            /\ history = <<<<x, y>>>> => ret.tag = "unary"
            /\ history = <<<<x, y>>, <<z>>>> => ret = Direct(<<x, y, z>>)
            /\ history = <<<<x>>>> => ret.tag = "binary"
            /\ history = <<<<x>>, <<y, z>>>> => ret = Direct(<<x, y, z>>)
            /\ history = <<<<x, y, z>>>> =>
                  /\ ret = Direct(<<x, y, z>>)
                  /\ Len(InvocationsOf(Curried)) = 1
                  /\ InvocationsOf(Curried)[1].args = <<x, y, z>>

\* ternary(fn)(1, 2)(3) returned fn(1, 2, 3), fn of unknown body.
C9_Witness ==
    /\ op = "ternary"
    /\ Curried = UserFn(1, 3)
    /\ history = <<<<Num(1), Num(2)>>, <<Num(3)>>>>
    /\ ret = App(1, <<Num(1), Num(2), Num(3)>>)

\* f_1(f_2(... f_n(x))) and f_n(... f_2(f_1(x))) for functions of unknown body
RECURSIVE RightToLeft(_, _)
RightToLeft(fns, x) ==
    IF fns = <<>> THEN x
    ELSE App(Head(fns).num, <<RightToLeft(Tail(fns), x)>>)

RECURSIVE LeftToRight(_, _)
LeftToRight(fns, x) ==
    IF fns = <<>> THEN x
    ELSE LeftToRight(Tail(fns), App(Head(fns).num, <<x>>))

\* compose(fns...)(x) was evaluated.
ComposedApplied == op = "compose" /\ Len(history) = 2

C10_ComposeInListedOrder ==
    ComposedApplied => ret = LeftToRight(history[1], Arg(history[2], 0))
====
